---- MODULE Spec2Model ----
(***************************************************************************)
(* specializeAutogradZero (torch/csrc/jit/passes/specialize_autogradzero)  *)
(* as a state machine over a mutable JIT graph.                            *)
(*                                                                         *)
(* A value is a pair <<node, index>>; <<0, i>> is the i-th graph input.    *)
(* A block is a pair <<node, j>>; <<0, 0>> is the graph's top-level block. *)
(* The graph g is a record:                                                *)
(*   nin   number of graph inputs                                          *)
(*   kind  node -> operation kind        (DOMAIN kind = the live nodes)    *)
(*   ins   node -> sequence of input values                                *)
(*   nout  node -> number of outputs                                       *)
(*   body  block -> sequence of nodes, in program order                    *)
(*   rets  block -> sequence of the block's output values                  *)
(*   type  value -> type annotation                                        *)
(*   fresh the identity the next created node gets                         *)
(***************************************************************************)
EXTENDS Integers, Sequences, FiniteSets, TLC

VARIABLES g, state, it, pc, tmp, i, body0, run, visited, top0

vars == <<g, state, it, pc, tmp, i, body0, run, visited, top0>>

\* ------------------------------------------------------------ bounds
NumInputs == 2
MaxItems == 2
MaxRuns == 2

\* ------------------------------------------------------------ types
\* A type annotation: TensorType with undefined() = true / false / nullopt,
\* List[Tensor], or a non-tensor type.
TensorUndef == "Tensor(undefined=true)"
TensorDef == "Tensor(undefined=false)"
TensorUnk == "Tensor"
TensorList == "List[Tensor]"
IntType == "int"
BoolType == "bool"

TypeKinds == <<TensorUndef, TensorDef, TensorUnk, TensorList, IntType>>

\* tp->cast<TensorType>() is non-null
castTensorType(tp) == tp \in {TensorUndef, TensorDef, TensorUnk}

\* tt->undefined(): c10::optional<bool>
undefined(tp) ==
  CASE tp = TensorUndef -> "true"
    [] tp = TensorDef -> "false"
    [] OTHER -> "nullopt"

\* tp->isSubtypeOf(TensorType::get())
isSubtypeOfTensor(tp) == tp \in {TensorUndef, TensorDef, TensorUnk}

\* tp->isSubtypeOf(ListType::ofTensors())
isSubtypeOfTensorList(tp) == tp = TensorList

\* ------------------------------------------------------------ State
\* enum class State { Nonzero, Zero, Unknown }, in declaration order
StateValues == <<"Nonzero", "Zero", "Unknown">>
Nonzero == StateValues[1]
Zero == StateValues[2]
Unknown == StateValues[3]

\* std::unordered_map::operator[] value-initialises a missing entry:
\* State() is the enumerator with value 0
DefaultState == StateValues[1]

EmptyMap == [v \in {} |-> Unknown]

\* state[v] as an rvalue
Lookup(st, v) == IF v \in DOMAIN st THEN st[v] ELSE DefaultState

\* the map after state[v] was evaluated for every v in vs
Touch(st, vs) ==
  [v \in DOMAIN st \cup vs |-> IF v \in DOMAIN st THEN st[v] ELSE DefaultState]

\* the map after state[v] = s
Assign(st, v, s) == [w \in DOMAIN st \cup {v} |-> IF w = v THEN s ELSE st[w]]

\* the map after state[v] = s for every v in vs
AssignAll(st, vs, s) == [w \in DOMAIN st \cup vs |-> IF w \in vs THEN s ELSE st[w]]

\* ------------------------------------------------------------ graph
Top == <<0, 0>>

Range(s) == {s[k] : k \in 1..Len(s)}

Nodes(gr) == DOMAIN gr.kind

Inputs(gr) == {<<0, k>> : k \in 1..gr.nin}

Outputs(gr, m) == {<<m, k>> : k \in 1..gr.nout[m]}

OutputSeq(gr, m) == [k \in 1..gr.nout[m] |-> <<m, k>>]

Blocks(gr) == DOMAIN gr.body

\* n->blocks()
BlocksOf(gr, m) == {bl \in Blocks(gr) : bl[1] = m}

\* the block whose node list holds m (Top when m is in none)
OwningBlock(gr, m) ==
  IF \E bl \in Blocks(gr) : m \in Range(gr.body[bl])
  THEN CHOOSE bl \in Blocks(gr) : m \in Range(gr.body[bl])
  ELSE Top

InBlockList(gr, m) == \E bl \in Blocks(gr) : m \in Range(gr.body[bl])

IndexOf(s, x) == CHOOSE k \in 1..Len(s) : s[k] = x

RemoveAt(s, k) == [j \in 1..(Len(s) - 1) |-> IF j < k THEN s[j] ELSE s[j + 1]]

InsertAt(s, k, x) ==
  [j \in 1..(Len(s) + 1) |-> IF j < k THEN s[j] ELSE IF j = k THEN x ELSE s[j - 1]]

Remove(s, x) == IF x \in Range(s) THEN RemoveAt(s, IndexOf(s, x)) ELSE s

\* the nodes nested, at any depth, in the blocks of m
RECURSIVE Nested(_, _)
Nested(gr, m) ==
  LET direct == UNION {Range(gr.body[bl]) : bl \in BlocksOf(gr, m)}
  IN direct \cup UNION {Nested(gr, d) : d \in direct}

\* the use sites of value v: <<"in", node, k>> and <<"ret", block, k>>
Uses(gr, v) ==
  UNION {{<<"in", m, k>> : k \in {j \in 1..Len(gr.ins[m]) : gr.ins[m][j] = v}}
         : m \in Nodes(gr)} \cup
  UNION {{<<"ret", bl, k>> : k \in {j \in 1..Len(gr.rets[bl]) : gr.rets[bl][j] = v}}
         : bl \in Blocks(gr)}

\* what the use site reads
UseAt(gr, u) == IF u[1] = "in" THEN gr.ins[u[2]][u[3]] ELSE gr.rets[u[2]][u[3]]

UseSites(gr) ==
  UNION {{<<"in", m, k>> : k \in 1..Len(gr.ins[m])} : m \in Nodes(gr)} \cup
  UNION {{<<"ret", bl, k>> : k \in 1..Len(gr.rets[bl])} : bl \in Blocks(gr)}

\* n->kind(); node 0 is the graph's parameter node, which defines the inputs
KindOf(gr, m) == IF m = 0 THEN "prim::Param" ELSE gr.kind[m]

Subst(s, v, w) == [k \in 1..Len(s) |-> IF s[k] = v THEN w ELSE s[k]]

\* v->replaceAllUsesWith(w): every consumer edge of v is retargeted to w
replaceAllUsesWith(gr, v, w) ==
  [gr EXCEPT !.ins = [m \in Nodes(gr) |-> Subst(gr.ins[m], v, w)],
             !.rets = [bl \in Blocks(gr) |-> Subst(gr.rets[bl], v, w)]]

\* n->destroy(): the node, its outputs, its blocks and the nodes nested in them
\* cease to exist, and the node leaves its list
destroy(gr, d) ==
  LET dead == {d} \cup Nested(gr, d)
      live == Nodes(gr) \ dead
      blks == {bl \in Blocks(gr) : bl[1] \notin dead}
  IN [gr EXCEPT !.kind = [m \in live |-> gr.kind[m]],
                !.ins = [m \in live |-> gr.ins[m]],
                !.nout = [m \in live |-> gr.nout[m]],
                !.body = [bl \in blks |-> Remove(gr.body[bl], d)],
                !.rets = [bl \in blks |-> gr.rets[bl]],
                !.type = [v \in {w \in DOMAIN gr.type : w[1] \notin dead} |-> gr.type[v]]]

\* g->create(kind, ...): a new node, in no list yet
create(gr, k, inputs, tys) ==
  LET m == gr.fresh
  IN [gr EXCEPT !.kind = (m :> k) @@ gr.kind,
                !.ins = (m :> inputs) @@ gr.ins,
                !.nout = (m :> Len(tys)) @@ gr.nout,
                !.type = [v \in DOMAIN gr.type \cup {<<m, j>> : j \in 1..Len(tys)} |->
                            IF v[1] = m THEN tys[v[2]] ELSE gr.type[v]],
                !.fresh = m + 1]

\* m->insertBefore(at)
insertBefore(gr, m, at) ==
  LET bl == OwningBlock(gr, at)
  IN [gr EXCEPT !.body[bl] = InsertAt(@, IndexOf(@, at), m)]

\* m->insertAfter(at)
insertAfter(gr, m, at) ==
  LET bl == OwningBlock(gr, at)
  IN [gr EXCEPT !.body[bl] = InsertAt(@, IndexOf(@, at) + 1, m)]

\* m->removeFromList()
removeFromList(gr, m) ==
  [gr EXCEPT !.body = [bl \in Blocks(gr) |-> Remove(gr.body[bl], m)]]

\* m->moveBefore(at)
moveBefore(gr, m, at) == insertBefore(removeFromList(gr, m), m, at)

\* block->appendNode(create(...))
appendNode(gr, bl, k, inputs, tys) ==
  LET c == create(gr, k, inputs, tys)
  IN [c EXCEPT !.body[bl] = Append(@, gr.fresh)]

\* a node gets its blocks: n->addBlock() for each
addBlocks(gr, m, nb) ==
  [gr EXCEPT !.body = [bl \in Blocks(gr) \cup {<<m, j>> : j \in 1..nb} |->
                         IF bl \in Blocks(gr) THEN gr.body[bl] ELSE <<>>],
             !.rets = [bl \in Blocks(gr) \cup {<<m, j>> : j \in 1..nb} |->
                         IF bl \in Blocks(gr) THEN gr.rets[bl] ELSE <<>>]]

\* block->registerOutput(v) for each v of vs
registerOutputs(gr, bl, vs) == [gr EXCEPT !.rets[bl] = @ \o vs]

\* ------------------------------------------------------------ iterator
\* graph_node_list_iterator over g.nodes(); 0 is the list's sentinel (end())
begin(gr) == IF gr.body[Top] = <<>> THEN 0 ELSE gr.body[Top][1]

\* cur->next
next(gr, cur) ==
  LET l == gr.body[Top]
  IN IF cur = 0 THEN begin(gr)
     ELSE IF IndexOf(l, cur) = Len(l) THEN 0 ELSE l[IndexOf(l, cur) + 1]

\* cur->prev
prev(gr, cur) ==
  LET l == gr.body[Top]
  IN IF cur = 0 THEN (IF l = <<>> THEN 0 ELSE l[Len(l)])
     ELSE IF IndexOf(l, cur) = 1 THEN 0 ELSE l[IndexOf(l, cur) - 1]

\* ------------------------------------------------------------ input graphs
\* The graphs handed to the pass: NumInputs typed inputs and up to MaxItems
\* top-level items. An item is one node, or a lowered GradOf block (an
\* AutogradAnyNonZero test followed by the prim::If it guards). Operands are
\* drawn from the two most recently defined top-level values. Every graph
\* returns all the values its top-level body defines.

\* the input signatures: NumInputs consecutive kinds of the cycle TypeKinds
Signatures ==
  {[k \in 1..NumInputs |-> TypeKinds[((s + k - 2) % Len(TypeKinds)) + 1]]
     : s \in 1..Len(TypeKinds)}

EmptyGraph(sig) ==
  [nin |-> Len(sig),
   kind |-> [m \in {} |-> ""],
   ins |-> [m \in {} |-> <<>>],
   nout |-> [m \in {} |-> 0],
   body |-> (Top :> <<>>),
   rets |-> (Top :> <<>>),
   type |-> [v \in {<<0, k>> : k \in 1..Len(sig)} |-> sig[v[2]]],
   fresh |-> 1]

\* the shapes of a GradOf block's true branch
Templates == {"ret", "chain", "anz", "nested"}

OutTypes(t) ==
  CASE t = "chain" -> <<TensorUnk, TensorUnk>>
    [] t = "anz" -> <<BoolType>>
    [] OTHER -> <<TensorUnk>>

\* the else branch of a lowered GradOf: one zero (or constant) for every output
FalseBody(gr, m, t) ==
  LET k == IF t = "anz" THEN "prim::Constant[value=0]" ELSE "prim::AutogradZero"
      ty == IF t = "anz" THEN BoolType ELSE TensorUndef
      g1 == appendNode(gr, <<m, 2>>, k, <<>>, <<ty>>)
  IN registerOutputs(g1, <<m, 2>>, [j \in 1..gr.nout[m] |-> <<gr.fresh, 1>>])

\* a prim::If on c in block bl whose true branch is empty and returns x
SimpleIf(gr, bl, c, x) ==
  LET m == gr.fresh
      g1 == addBlocks(appendNode(gr, bl, "prim::If", <<c>>, <<TensorUnk>>), m, 2)
  IN FalseBody(registerOutputs(g1, <<m, 1>>, <<x>>), m, "ret")

\* the true branch of the prim::If m, over the outer values x and y
TrueBody(gr, m, t, x, y) ==
  LET tb == <<m, 1>>
      f == gr.fresh
  IN CASE t = "ret" -> registerOutputs(gr, tb, <<x>>)
       [] t = "chain" ->
            LET g1 == appendNode(gr, tb, "aten::mul", <<x, y>>, <<TensorUnk>>)
                g2 == appendNode(g1, tb, "prim::AutogradAdd", <<x, y>>, <<TensorUnk>>)
            IN registerOutputs(g2, tb, <<<<f, 1>>, <<f + 1, 1>>>>)
       [] t = "anz" ->
            LET g1 == appendNode(gr, tb, "aten::mul", <<x, y>>, <<TensorUnk>>)
                g2 == appendNode(g1, tb, "prim::AutogradAnyNonZero", <<<<f, 1>>>>,
                                 <<BoolType>>)
            IN registerOutputs(g2, tb, <<<<f + 1, 1>>>>)
       [] OTHER ->
            LET g1 == appendNode(gr, tb, "prim::AutogradAnyNonZero", <<x>>, <<BoolType>>)
                g2 == SimpleIf(g1, tb, <<f, 1>>, y)
            IN registerOutputs(g2, tb, <<<<f + 1, 1>>>>)

\* a prim::If on c appended to the top-level body
IfNode(gr, c, t) ==
  LET m == gr.fresh
      g1 == addBlocks(appendNode(gr, Top, "prim::If", <<c>>, OutTypes(t)), m, 2)
  IN FalseBody(TrueBody(g1, m, t, <<0, 1>>, <<0, gr.nin>>), m, t)

\* a lowered GradOf block: the any-nonzero test over ops, then the prim::If
GradOf(gr, ops, t) ==
  IfNode(appendNode(gr, Top, "prim::AutogradAnyNonZero", ops, <<BoolType>>),
         <<gr.fresh, 1>>, t)

\* the values the top-level body can read, in order of definition
RECURSIVE Flatten(_)
Flatten(ss) == IF ss = <<>> THEN <<>> ELSE Head(ss) \o Flatten(Tail(ss))

TopValues(gr) == Flatten([k \in 1..Len(gr.body[Top]) |-> OutputSeq(gr, gr.body[Top][k])])

Avail(gr) == [k \in 1..gr.nin |-> <<0, k>>] \o TopValues(gr)

\* the items a graph is built from
Items ==
  {"add12", "add21", "add22", "zero", "mul", "guard", "bailout", "profile",
   "counter", "if", "gradof0", "gradof1", "gradof2"}

\* gr extended by item c, over the two most recent values w1 and w2; ty is
\* the type the graph's guard nodes declare, t the shape of its GradOf blocks
Extend(gr, c, ty, t) ==
  LET av == Avail(gr)
      w2 == av[Len(av)]
      w1 == av[Len(av) - 1]
  IN CASE c = "add12" -> appendNode(gr, Top, "prim::AutogradAdd", <<w1, w2>>, <<TensorUnk>>)
       [] c = "add21" -> appendNode(gr, Top, "prim::AutogradAdd", <<w2, w1>>, <<TensorUnk>>)
       [] c = "add22" -> appendNode(gr, Top, "prim::AutogradAdd", <<w2, w2>>, <<TensorUnk>>)
       [] c = "zero" -> appendNode(gr, Top, "prim::AutogradZero", <<>>, <<TensorUndef>>)
       [] c = "mul" -> appendNode(gr, Top, "aten::mul", <<w1, w2>>, <<TensorUnk>>)
       [] c = "guard" -> appendNode(gr, Top, "prim::Guard", <<w2>>, <<ty>>)
       [] c = "bailout" -> appendNode(gr, Top, "prim::BailOut", <<w2>>, <<ty>>)
       [] c = "profile" -> appendNode(gr, Top, "prim::profile", <<w2>>, <<gr.type[w2]>>)
       [] c = "counter" -> appendNode(gr, Top, "prim::profile", <<>>, <<>>)
       [] c = "if" -> IfNode(gr, w2, t)
       [] c = "gradof0" -> GradOf(gr, <<>>, t)
       [] c = "gradof1" -> GradOf(gr, <<w2>>, t)
       [] OTHER -> GradOf(gr, <<w1, w2>>, t)

\* the graph of the items cs[1..k]
RECURSIVE Build(_, _, _, _, _)
Build(cs, k, sig, ty, t) ==
  IF k = 0 THEN EmptyGraph(sig) ELSE Extend(Build(cs, k - 1, sig, ty, t), cs[k], ty, t)

\* the graph returns every value of its top-level body
Finish(gr) == registerOutputs(gr, Top, TopValues(gr))

\* ------------------------------------------------------------ the pass
Init ==
  /\ \E k \in 0..MaxItems, sig \in Signatures, t \in Templates,
        ty \in {TensorUndef, TensorDef, TensorUnk} :
       \E cs \in [1..k -> Items] : g = Finish(Build(cs, k, sig, ty, t))
  /\ state = EmptyMap
  /\ it = 0
  /\ pc = "init"
  /\ tmp = 0
  /\ i = 0
  /\ body0 = <<>>
  /\ run = 1
  /\ visited = <<>>
  /\ top0 = g.body[Top]

\* InputState with every tensor type of unknown flag taken as Nonzero
InputState_Optimistic(tp) ==
  IF castTensorType(tp) /\ undefined(tp) = "true" THEN Zero
  ELSE IF isSubtypeOfTensor(tp) \/ isSubtypeOfTensorList(tp) THEN Nonzero
  ELSE Unknown

\* the classification of a graph input of type tp
InputState(tp) ==
  IF castTensorType(tp)
  THEN IF undefined(tp) # "nullopt"
       THEN IF undefined(tp) = "true" THEN Zero ELSE Nonzero
       ELSE Unknown
  ELSE IF isSubtypeOfTensor(tp) \/ isSubtypeOfTensorList(tp) THEN Nonzero
  ELSE Unknown

\* for (Value* input : g.inputs()) ...; it = g.nodes().begin()
InitInputs ==
  /\ pc = "init"
  /\ state' = [v \in Inputs(g) |-> InputState(g.type[v])]
  /\ it' = begin(g)
  /\ pc' = "loop"
  /\ UNCHANGED <<g, tmp, i, body0, run, visited, top0>>

\* it == g.nodes().end()
LoopEnd ==
  /\ pc = "loop"
  /\ it = 0
  /\ pc' = "done"
  /\ UNCHANGED <<g, state, it, tmp, i, body0, run, visited, top0>>

\* the switch case taken by the latest dispatch
rule == IF visited = <<>> THEN "none" ELSE visited[Len(visited)][3]

\* the loop body is entered for node it, of kind k
AtNode(k) == pc = "loop" /\ it # 0 /\ KindOf(g, it) = k

a == g.ins[it][1]
b == g.ins[it][2]
output == <<it, 1>>

\* break; ++it  (the current node stays)
Advance(r) ==
  /\ it' = next(g, it)
  /\ pc' = "loop"
  /\ visited' = Append(visited, <<run, it, r>>)
  /\ UNCHANGED <<g, tmp, i, body0, run, top0>>

\* a rewrite of the current node begins: control moves to label l
Begin(r, l) ==
  /\ pc' = l
  /\ visited' = Append(visited, <<run, it, r>>)
  /\ UNCHANGED <<it, run, top0>>

\* AddZeroA forwarding the Zero operand itself
AddZeroA_ForwardsA ==
  /\ AtNode("prim::AutogradAdd")
  /\ Lookup(state, a) = Zero
  /\ state' = Touch(state, {a})
  /\ g' = replaceAllUsesWith(g, output, a)
  /\ Begin("zeroA", "destroy")
  /\ UNCHANGED <<tmp, i, body0>>

\* Zero + b == b
AddZeroA ==
  /\ AtNode("prim::AutogradAdd")
  /\ Lookup(state, a) = Zero
  /\ state' = Touch(state, {a})
  /\ g' = replaceAllUsesWith(g, output, b)
  /\ Begin("zeroA", "destroy")
  /\ UNCHANGED <<tmp, i, body0>>

\* a + Zero == a
AddZeroB ==
  /\ AtNode("prim::AutogradAdd")
  /\ Lookup(state, a) # Zero
  /\ Lookup(state, b) = Zero
  /\ state' = Touch(state, {a, b})
  /\ g' = replaceAllUsesWith(g, output, a)
  /\ Begin("zeroB", "destroy")
  /\ UNCHANGED <<tmp, i, body0>>

\* AddNonzero with the constant placed after the guarded add
AddNonzero_After ==
  /\ AtNode("prim::AutogradAdd")
  /\ Lookup(state, a) # Zero
  /\ Lookup(state, b) # Zero
  /\ Lookup(state, a) = Nonzero /\ Lookup(state, b) = Nonzero
  /\ state' = Touch(state, {a, b})
  /\ g' = insertAfter(create(g, "prim::Constant[value=1]", <<>>, <<IntType>>), g.fresh, it)
  /\ tmp' = g.fresh
  /\ Begin("nonzero", "add")
  /\ UNCHANGED <<i, body0>>

\* both Nonzero: WithInsertPoint guard(n); cOne = g->insertConstant(1)
AddNonzero ==
  /\ AtNode("prim::AutogradAdd")
  /\ Lookup(state, a) # Zero
  /\ Lookup(state, b) # Zero
  /\ Lookup(state, a) = Nonzero /\ Lookup(state, b) = Nonzero
  /\ state' = Touch(state, {a, b})
  /\ g' = insertBefore(create(g, "prim::Constant[value=1]", <<>>, <<IntType>>), g.fresh, it)
  /\ tmp' = g.fresh
  /\ Begin("nonzero", "add")
  /\ UNCHANGED <<i, body0>>

\* AddInsert with the operands in the wrong order
AddInsert_Swapped ==
  /\ pc = "add"
  /\ g' = insertBefore(create(g, "aten::add", <<b, a, <<tmp, 1>>>>, <<g.type[output]>>),
                       g.fresh, it)
  /\ state' = Assign(state, <<g.fresh, 1>>, Nonzero)
  /\ tmp' = g.fresh
  /\ pc' = "addrauw"
  /\ UNCHANGED <<it, i, body0, run, visited, top0>>

\* AddInsert with the add placed before its constant
AddInsert_BeforeConst ==
  /\ pc = "add"
  /\ g' = insertBefore(create(g, "aten::add", <<a, b, <<tmp, 1>>>>, <<g.type[output]>>),
                       g.fresh, tmp)
  /\ state' = Assign(state, <<g.fresh, 1>>, Nonzero)
  /\ tmp' = g.fresh
  /\ pc' = "addrauw"
  /\ UNCHANGED <<it, i, body0, run, visited, top0>>

\* add_node = g->insertNode(g->create(aten::add, 1)); addInput(a, b, cOne);
\* add_output->setType(n->output()->type()); state[add_output] = Nonzero
AddInsert ==
  /\ pc = "add"
  /\ g' = insertBefore(create(g, "aten::add", <<a, b, <<tmp, 1>>>>, <<g.type[output]>>),
                       g.fresh, it)
  /\ state' = Assign(state, <<g.fresh, 1>>, Nonzero)
  /\ tmp' = g.fresh
  /\ pc' = "addrauw"
  /\ UNCHANGED <<it, i, body0, run, visited, top0>>

\* AddReplace that leaves the uses of the old output in place
AddReplace_Skip ==
  /\ pc = "addrauw"
  /\ pc' = "destroy"
  /\ UNCHANGED <<g, state, it, tmp, i, body0, run, visited, top0>>

\* n->output()->replaceAllUsesWith(add_output)
AddReplace ==
  /\ pc = "addrauw"
  /\ g' = replaceAllUsesWith(g, output, <<tmp, 1>>)
  /\ pc' = "destroy"
  /\ UNCHANGED <<state, it, tmp, i, body0, run, visited, top0>>

\* AddUnknown that takes the guarded sum for a real value
AddUnknown_Nonzero ==
  /\ AtNode("prim::AutogradAdd")
  /\ Lookup(state, a) # Zero
  /\ Lookup(state, b) # Zero
  /\ ~(Lookup(state, a) = Nonzero /\ Lookup(state, b) = Nonzero)
  /\ state' = Assign(Touch(state, {a, b}), output, Nonzero)
  /\ Advance("addUnknown")

\* conditionally-Nonzero operands: the op is left as is
AddUnknown ==
  /\ AtNode("prim::AutogradAdd")
  /\ Lookup(state, a) # Zero
  /\ Lookup(state, b) # Zero
  /\ ~(Lookup(state, a) = Nonzero /\ Lookup(state, b) = Nonzero)
  /\ state' = Assign(Touch(state, {a, b}), output, Unknown)
  /\ Advance("addUnknown")

\* DestroyCurrent without the increment that follows it
DestroyCurrent_Prev ==
  /\ pc = "destroy"
  /\ g' = destroy(g, it)
  /\ it' = prev(g, it)
  /\ pc' = "loop"
  /\ UNCHANGED <<state, tmp, i, body0, run, visited, top0>>

\* DestroyCurrent with the traversal restarted from the head of the body
DestroyCurrent_Restart ==
  /\ pc = "destroy"
  /\ g' = destroy(g, it)
  /\ it' = begin(g')
  /\ pc' = "loop"
  /\ UNCHANGED <<state, tmp, i, body0, run, visited, top0>>

\* DestroyCurrent with a cursor that was moved forward, not back, before the
\* node was destroyed: ++it then steps over the node that followed it
DestroyCurrent_Skips ==
  /\ pc = "destroy"
  /\ g' = destroy(g, it)
  /\ it' = IF next(g, it) = 0 THEN 0 ELSE next(g', next(g, it))
  /\ pc' = "loop"
  /\ UNCHANGED <<state, tmp, i, body0, run, visited, top0>>

\* it.destroyCurrent(); break; ++it
DestroyCurrent ==
  /\ pc = "destroy"
  /\ g' = destroy(g, it)
  /\ it' = next(g', prev(g, it))
  /\ pc' = "loop"
  /\ UNCHANGED <<state, tmp, i, body0, run, visited, top0>>

VisitAutogradZero ==
  /\ AtNode("prim::AutogradZero")
  /\ state' = Assign(state, output, Zero)
  /\ Advance("zero")

VisitProfile ==
  /\ AtNode("prim::profile")
  /\ state' = IF Len(g.ins[it]) > 0 THEN Assign(state, output, Unknown) ELSE state
  /\ Advance("profile")

\* the classification a guard's declared output type gives
GuardState(tp) ==
  IF undefined(tp) # "nullopt"
  THEN IF undefined(tp) = "true" THEN Zero ELSE Nonzero
  ELSE Unknown

VisitBailOut ==
  /\ AtNode("prim::BailOut")
  /\ castTensorType(g.type[output])
  /\ state' = Assign(state, output, GuardState(g.type[output]))
  /\ Advance("bailout")

VisitGuard ==
  /\ AtNode("prim::Guard")
  /\ castTensorType(g.type[output])
  /\ state' = Assign(state, output, GuardState(g.type[output]))
  /\ Advance("guard")

\* ---- Lowered GradOf block
if_input == g.ins[it][1][1]

Guarded == KindOf(g, if_input) = "prim::AutogradAnyNonZero"

\* std::all_of(vs, [&](Value* v) { return state[v] == s; })
AllOf(st, vs, s) == \A k \in 1..Len(vs) : Lookup(st, vs[k]) = s

\* the values all_of evaluates state[v] for: up to the first that fails
AllOfReads(st, vs, s) ==
  {vs[k] : k \in {j \in 1..Len(vs) : \A h \in 1..(j - 1) : Lookup(st, vs[h]) = s}}

\* all_zeros that does not hold of an empty operand list
all_zeros_NonEmpty == g.ins[if_input] # <<>> /\ AllOf(state, g.ins[if_input], Zero)

all_zeros == AllOf(state, g.ins[if_input], Zero)
all_nonzeros == AllOf(state, g.ins[if_input], Nonzero)

\* the entries the two all_of calls leave in the map
GuardReads ==
  AllOfReads(state, g.ins[if_input], Zero) \cup AllOfReads(state, g.ins[if_input], Nonzero)

\* Property 1: all gradInputs Zero;
\* zero = g.createAutogradZero()->insertAfter(n)->output(); state[zero] = Zero
IfAllZeros ==
  /\ AtNode("prim::If")
  /\ Guarded
  /\ all_zeros
  /\ g' = insertAfter(create(g, "prim::AutogradZero", <<>>, <<TensorUndef>>), g.fresh, it)
  /\ state' = Assign(Touch(state, GuardReads), <<g.fresh, 1>>, Zero)
  /\ tmp' = g.fresh
  /\ i' = 1
  /\ Begin("collapse", IF g.nout[it] = 0 THEN "destroy" ELSE "collapse")
  /\ UNCHANGED body0

\* CollapseOutput that replaces the first output only
CollapseOutput_FirstOnly ==
  /\ pc = "collapse"
  /\ g' = replaceAllUsesWith(g, <<it, 1>>, <<tmp, 1>>)
  /\ i' = i + 1
  /\ pc' = IF i = g.nout[it] THEN "destroy" ELSE "collapse"
  /\ UNCHANGED <<state, it, tmp, body0, run, visited, top0>>

\* for (auto o : n->outputs()) o->replaceAllUsesWith(zero)
CollapseOutput ==
  /\ pc = "collapse"
  /\ g' = replaceAllUsesWith(g, <<it, i>>, <<tmp, 1>>)
  /\ i' = i + 1
  /\ pc' = IF i = g.nout[it] THEN "destroy" ELSE "collapse"
  /\ UNCHANGED <<state, it, tmp, body0, run, visited, top0>>

\* all gradInputs Nonzero: body = n->blocks().at(0)
IfAllNonzeros ==
  /\ AtNode("prim::If")
  /\ Guarded
  /\ ~all_zeros
  /\ all_nonzeros
  /\ state' = Touch(state, GuardReads)
  /\ body0' = g.body[<<it, 1>>]
  /\ i' = 1
  /\ Begin("inline", IF g.body[<<it, 1>>] # <<>> THEN "hoist"
                     ELSE IF g.nout[it] = 0 THEN "destroy" ELSE "outs")
  /\ UNCHANGED <<g, tmp>>

\* HoistNode placing the node after the conditional, not before it
HoistNode_After ==
  /\ pc = "hoist"
  /\ g' = insertAfter(removeFromList(g, Head(g.body[<<it, 1>>])), Head(g.body[<<it, 1>>]), it)
  /\ pc' = IF Len(g.body[<<it, 1>>]) > 1 THEN "hoist"
           ELSE IF g.nout[it] = 0 THEN "destroy" ELSE "outs"
  /\ UNCHANGED <<state, it, tmp, i, body0, run, visited, top0>>

\* HoistNode walking the body from its end
HoistNode_Last ==
  /\ pc = "hoist"
  /\ g' = moveBefore(g, g.body[<<it, 1>>][Len(g.body[<<it, 1>>])], it)
  /\ pc' = IF Len(g.body[<<it, 1>>]) > 1 THEN "hoist"
           ELSE IF g.nout[it] = 0 THEN "destroy" ELSE "outs"
  /\ UNCHANGED <<state, it, tmp, i, body0, run, visited, top0>>

\* block_node = *it++; block_node->moveBefore(n)
HoistNode ==
  /\ pc = "hoist"
  /\ g' = moveBefore(g, Head(g.body[<<it, 1>>]), it)
  /\ pc' = IF Len(g.body[<<it, 1>>]) > 1 THEN "hoist"
           ELSE IF g.nout[it] = 0 THEN "destroy" ELSE "outs"
  /\ UNCHANGED <<state, it, tmp, i, body0, run, visited, top0>>

\* n->outputs().at(i)->replaceAllUsesWith(body->outputs().at(i));
\* state[body->outputs().at(i)] = Nonzero
InlineOutput ==
  /\ pc = "outs"
  /\ g' = replaceAllUsesWith(g, <<it, i>>, g.rets[<<it, 1>>][i])
  /\ state' = Assign(state, g.rets[<<it, 1>>][i], Nonzero)
  /\ i' = i + 1
  /\ pc' = IF i = g.nout[it] THEN "destroy" ELSE "outs"
  /\ UNCHANGED <<it, tmp, body0, run, visited, top0>>

\* neither property applies: for (auto o : n->outputs()) state[o] = Unknown
IfUnknown ==
  /\ AtNode("prim::If")
  /\ ~(Guarded /\ (all_zeros \/ all_nonzeros))
  /\ state' = AssignAll(IF Guarded THEN Touch(state, GuardReads) ELSE state,
                        Outputs(g, it), Unknown)
  /\ Advance("ifUnknown")

Recognized ==
  {"prim::AutogradAdd", "prim::AutogradZero", "prim::profile", "prim::BailOut",
   "prim::Guard", "prim::If"}

\* default: for (auto o : n->outputs()) state[o] = Unknown
VisitDefault ==
  /\ pc = "loop"
  /\ it # 0
  /\ KindOf(g, it) \notin Recognized
  /\ state' = AssignAll(state, Outputs(g, it), Unknown)
  /\ Advance("default")

\* the caller runs the pass again on the graph it produced
Rerun ==
  /\ pc = "done"
  /\ run < MaxRuns
  /\ run' = run + 1
  /\ state' = EmptyMap
  /\ it' = 0
  /\ pc' = "init"
  /\ top0' = g.body[Top]
  /\ UNCHANGED <<g, tmp, i, body0, visited>>

Next ==
  \/ InitInputs
  \/ LoopEnd
  \/ AddZeroA
  \/ AddZeroB
  \/ AddNonzero
  \/ AddInsert
  \/ AddReplace
  \/ AddUnknown
  \/ DestroyCurrent
  \/ VisitAutogradZero
  \/ VisitProfile
  \/ VisitBailOut
  \/ VisitGuard
  \/ IfAllZeros
  \/ CollapseOutput
  \/ IfAllNonzeros
  \/ HoistNode
  \/ InlineOutput
  \/ IfUnknown
  \/ VisitDefault
  \/ Rerun

Spec == Init /\ [][Next]_vars

\* the pass is sequential code: it keeps executing while a step is possible
LiveSpec == Spec /\ WF_vars(Next)

\* ------------------------------------------------------------ properties
\* v has an entry in the classification mapping, and the entry is s
Classified(v, s) == v \in DOMAIN state /\ state[v] = s

\* the step retargets every use of v to w and touches no other use
Forwarded(v, w) ==
  /\ \A u \in Uses(g, v) : UseAt(g', u) = w
  /\ Uses(g', v) = {}
  /\ UseSites(g') = UseSites(g)
  /\ \A u \in UseSites(g) \ Uses(g, v) : UseAt(g', u) = UseAt(g, u)

\* the values a node in the place of m can read: the outputs of the nodes
\* before it in its block, and what the enclosing scopes define before the
\* node that owns the block
RECURSIVE VisibleBefore(_, _)
VisibleBefore(gr, m) ==
  LET bl == OwningBlock(gr, m)
      l == gr.body[bl]
      earlier == UNION {Outputs(gr, l[k]) : k \in 1..(IndexOf(l, m) - 1)}
  IN earlier \cup (IF bl = Top THEN Inputs(gr) ELSE VisibleBefore(gr, bl[1]))

VisibleAtEnd(gr, bl) ==
  UNION {Outputs(gr, m) : m \in Range(gr.body[bl])}
    \cup (IF bl = Top THEN Inputs(gr) ELSE VisibleBefore(gr, bl[1]))

DefsBeforeUses(gr) ==
  /\ \A m \in Nodes(gr) : InBlockList(gr, m) /\ Range(gr.ins[m]) \subseteq VisibleBefore(gr, m)
  /\ \A bl \in Blocks(gr) : Range(gr.rets[bl]) \subseteq VisibleAtEnd(gr, bl)

\* the values that exist: graph inputs and outputs of live nodes
LiveValues(gr) == Inputs(gr) \cup UNION {Outputs(gr, m) : m \in Nodes(gr)}

NoDangling(gr) == \A u \in UseSites(gr) : UseAt(gr, u) \in LiveValues(gr)

\* the rules the dispatches so far have applied
Applied == {visited[k][3] : k \in 1..Len(visited)}

\* the nodes this run has dispatched, in order
Dispatched == {visited[k][2] : k \in {j \in 1..Len(visited) : visited[j][1] = run}}

\* the Initializer has just run: no node dispatched yet
JustInitialized == pc = "loop" /\ \A k \in 1..Len(visited) : visited[k][1] # run

\* ---- C1
\* what the claim gives a graph input of type tp
ClaimedInputState(tp) ==
  CASE tp = TensorUndef -> Zero
    [] tp = TensorDef -> Nonzero
    [] tp = TensorUnk -> Nonzero
    [] tp = TensorList -> Nonzero
    [] OTHER -> Unknown

\* the same, but a tensor type whose flag is unknown is Unknown
AmendedInputState(tp) ==
  CASE tp = TensorUndef -> Zero
    [] tp = TensorDef -> Nonzero
    [] tp = TensorUnk -> Unknown
    [] tp = TensorList -> Nonzero
    [] OTHER -> Unknown

\* C1 as stated: after the Initializer every graph input is classified from
\* its type: flag true Zero, flag false Nonzero, flag unknown Nonzero, list of
\* tensors Nonzero, any other type Unknown.
C1_Original ==
  JustInitialized =>
    \A v \in Inputs(g) : Classified(v, ClaimedInputState(g.type[v]))

\* C1 amended: after the Initializer every graph input is classified from its
\* type: flag true Zero, flag false Nonzero, flag unknown Unknown, list of
\* tensors Nonzero, any other type Unknown.
C1_InputsClassified ==
  JustInitialized =>
    /\ DOMAIN state = Inputs(g)
    /\ \A v \in Inputs(g) : Classified(v, AmendedInputState(g.type[v]))

C1_Witness ==
  /\ JustInitialized
  /\ \E v \in Inputs(g) : g.type[v] = TensorUnk /\ Classified(v, Unknown)
  /\ \E v \in Inputs(g) : g.type[v] = TensorList /\ Classified(v, Nonzero)

\* ---- C2
\* C2: a value read without an entry in the mapping is treated as Unknown, so
\* it triggers no rewrite: a guarded add with an unclassified operand is
\* rewritten only when its other operand is Zero, and a conditional whose
\* any-nonzero test has an unclassified operand is left as it is.
C2_MissingIsUnknown ==
  [][/\ (AtNode("prim::AutogradAdd") /\ a \notin DOMAIN state /\ ~Classified(b, Zero))
         => rule' = "addUnknown"
     /\ (AtNode("prim::AutogradAdd") /\ b \notin DOMAIN state /\ ~Classified(a, Zero))
         => rule' = "addUnknown"
     /\ (AtNode("prim::If") /\ Guarded /\ ~(Range(g.ins[if_input]) \subseteq DOMAIN state))
         => rule' = "ifUnknown"]_vars

\* ---- C3
\* C3: a top-level guarded add whose operand a is Zero has every use of its
\* output replaced by b, and otherwise, if b is Zero, by a; the add is then
\* destroyed, and no node is inserted.
C3_AddWithZero ==
  [][/\ (AtNode("prim::AutogradAdd") /\ Classified(a, Zero))
         => Forwarded(output, b) /\ Nodes(g') = Nodes(g) /\ pc' = "destroy"
     /\ (AtNode("prim::AutogradAdd") /\ ~Classified(a, Zero) /\ Classified(b, Zero))
         => Forwarded(output, a) /\ Nodes(g') = Nodes(g) /\ pc' = "destroy"
     /\ (pc = "destroy" /\ rule \in {"zeroA", "zeroB"})
         => /\ Nodes(g') = Nodes(g) \ {it}
            /\ it \notin Range(g'.body[Top])
            /\ pc' = "loop"]_vars

C3_Witness ==
  /\ pc = "loop"
  /\ {"zeroA", "zeroB"} \subseteq Applied
  /\ \A k \in 1..Len(visited) : visited[k][3] \in {"zeroA", "zeroB"} =>
        visited[k][2] \notin Nodes(g)

\* ---- C4
\* C4: a top-level guarded add whose operands are both Nonzero is replaced by
\* an ordinary add inserted before it, with inputs (a, b, constant 1) in that
\* order, the type of the original output and classification Nonzero; every
\* use of the original output goes to the new output, and the guarded add is
\* destroyed.
C4_AddBothNonzero ==
  [][/\ (AtNode("prim::AutogradAdd") /\ Classified(a, Nonzero) /\ Classified(b, Nonzero))
         => /\ pc' = "add"
            /\ Nodes(g') = Nodes(g) \cup {tmp'}
            /\ tmp' \notin Nodes(g)
            /\ g'.kind[tmp'] = "prim::Constant[value=1]"
     /\ (pc = "add")
         => /\ Nodes(g') = Nodes(g) \cup {tmp'}
            /\ tmp' \notin Nodes(g)
            /\ g'.kind[tmp'] = "aten::add"
            /\ g'.ins[tmp'] = <<a, b, <<tmp, 1>>>>
            /\ g'.nout[tmp'] = 1
            /\ g'.type[<<tmp', 1>>] = g.type[output]
            /\ state'[<<tmp', 1>>] = Nonzero
            /\ LET l == g'.body[Top]
               IN /\ it \in Range(l)
                  /\ IndexOf(l, it) > 2
                  /\ l[IndexOf(l, it) - 1] = tmp'
                  /\ l[IndexOf(l, it) - 2] = tmp
            /\ pc' = "addrauw"
     /\ (pc = "addrauw")
         => Forwarded(output, <<tmp, 1>>) /\ Nodes(g') = Nodes(g) /\ pc' = "destroy"
     /\ (pc = "destroy" /\ rule = "nonzero")
         => /\ Nodes(g') = Nodes(g) \ {it}
            /\ it \notin Range(g'.body[Top])
            /\ tmp \in Range(g'.body[Top])
            /\ Classified(<<tmp, 1>>, Nonzero)]_vars

C4_Witness ==
  /\ pc = "loop"
  /\ rule = "nonzero"
  /\ visited[Len(visited)][2] \notin Nodes(g)
  /\ g.kind[tmp] = "aten::add"
  /\ <<tmp, 1>> \in Range(g.rets[Top])

\* ---- C5
\* C5: a top-level guarded add with no Zero operand and not both operands
\* Nonzero is left as it is (node, inputs, position, uses), and its output is
\* classified Unknown.
C5_AddMixed ==
  [][(/\ AtNode("prim::AutogradAdd")
      /\ ~Classified(a, Zero)
      /\ ~Classified(b, Zero)
      /\ ~(Classified(a, Nonzero) /\ Classified(b, Nonzero)))
     => /\ g' = g
        /\ state'[output] = Unknown
        /\ pc' = "loop"
        /\ it \in Range(g'.body[Top])]_vars

C5_Witness ==
  /\ rule = "addUnknown"
  /\ LET m == visited[Len(visited)][2]
     IN /\ m \in Range(g.body[Top])
        /\ g.kind[m] = "prim::AutogradAdd"
        /\ Classified(<<m, 1>>, Unknown)
        /\ \E v \in Range(g.ins[m]) : Classified(v, Nonzero)

\* ---- C6
\* the operands of the any-nonzero test that guards the current conditional
GuardOps == g.ins[if_input]

\* C6: a top-level conditional guarded by an any-nonzero test whose operands
\* are all Zero: exactly one zero-constant-producer is inserted right after
\* it, its output classified Zero; every use of every output of the
\* conditional goes to that value; the conditional is destroyed.
C6_AllZeroCollapse ==
  [][/\ (/\ AtNode("prim::If")
          /\ Guarded
          /\ \A k \in 1..Len(GuardOps) : Classified(GuardOps[k], Zero))
         => /\ pc' = "collapse"
            /\ Nodes(g') = Nodes(g) \cup {tmp'}
            /\ tmp' \notin Nodes(g)
            /\ g'.kind[tmp'] = "prim::AutogradZero"
            /\ g'.nout[tmp'] = 1
            /\ g'.body[Top] = InsertAt(g.body[Top], IndexOf(g.body[Top], it) + 1, tmp')
            /\ state'[<<tmp', 1>>] = Zero
     /\ (pc = "collapse")
         => /\ Forwarded(<<it, i>>, <<tmp, 1>>)
            /\ Nodes(g') = Nodes(g)
            /\ g'.body = g.body
     /\ (pc = "destroy" /\ rule = "collapse")
         => /\ \A k \in 1..g.nout[it] : Uses(g, <<it, k>>) = {}
            /\ it \notin Nodes(g')
            /\ tmp \in Nodes(g')
            /\ IndexOf(g'.body[Top], tmp) = IndexOf(g.body[Top], it)
            /\ Cardinality(Nodes(g') \ Nodes(g)) = 0
            /\ Classified(<<tmp, 1>>, Zero)]_vars

C6_Witness ==
  /\ pc = "loop"
  /\ rule = "collapse"
  /\ visited[Len(visited)][2] \notin Nodes(g)
  /\ it = tmp
  /\ g.kind[tmp] = "prim::AutogradZero"
  /\ Cardinality({k \in 1..Len(g.rets[Top]) : g.rets[Top][k] = <<tmp, 1>>}) = 2

\* ---- C7
\* the true-branch nodes body0 stand, in their order, right before node m in
\* the top-level body of gr
HoistedBefore(gr, m) ==
  LET l == gr.body[Top]
      p == IndexOf(l, m)
  IN /\ m \in Range(l)
     /\ p > Len(body0)
     /\ \A k \in 1..Len(body0) : l[p - Len(body0) + k - 1] = body0[k]

\* the rewrite an all-Nonzero guard leads to, from its second step on
InlineSteps ==
  /\ (pc = "hoist")
       => /\ Nodes(g') = Nodes(g)
          /\ UseSites(g') = UseSites(g)
          /\ \A u \in UseSites(g) : UseAt(g', u) = UseAt(g, u)
  /\ (pc = "outs")
       => /\ HoistedBefore(g, it)
          /\ g.body[<<it, 1>>] = <<>>
          /\ Forwarded(<<it, i>>, g.rets[<<it, 1>>][i])
          /\ state'[g.rets[<<it, 1>>][i]] = Nonzero
          /\ g'.body = g.body
  /\ (pc = "destroy" /\ rule = "inline")
       => /\ HoistedBefore(g, it)
          /\ \A k \in 1..g.nout[it] :
                Uses(g, <<it, k>>) = {} /\ Classified(g.rets[<<it, 1>>][k], Nonzero)
          /\ it \notin Nodes(g')
          /\ Range(body0) \subseteq Range(g'.body[Top])
          /\ \A k \in 1..Len(body0) :
                g'.body[Top][IndexOf(g.body[Top], it) - Len(body0) + k - 1] = body0[k]

\* C7 as stated: a top-level conditional guarded by an any-nonzero test whose
\* operands are all Nonzero has its true branch hoisted, in order, before it,
\* each output replaced by the branch's output, classified Nonzero, and is
\* destroyed.
C7_Original ==
  [][/\ (/\ AtNode("prim::If")
          /\ Guarded
          /\ \A k \in 1..Len(GuardOps) : Classified(GuardOps[k], Nonzero))
         => rule' = "inline" /\ body0' = g.body[<<it, 1>>]
     /\ InlineSteps]_vars

\* C7 amended: the same, for a test that has at least one operand.
C7_AllNonzeroInline ==
  [][/\ (/\ AtNode("prim::If")
          /\ Guarded
          /\ Len(GuardOps) > 0
          /\ \A k \in 1..Len(GuardOps) : Classified(GuardOps[k], Nonzero))
         => rule' = "inline" /\ body0' = g.body[<<it, 1>>]
     /\ InlineSteps]_vars

C7_Witness ==
  /\ pc = "loop"
  /\ rule = "inline"
  /\ visited[Len(visited)][2] \notin Nodes(g)
  /\ Len(body0) = 2
  /\ Range(body0) \subseteq Range(g.body[Top])
  /\ IndexOf(g.body[Top], body0[1]) + 1 = IndexOf(g.body[Top], body0[2])
  /\ <<body0[1], 1>> \in Range(g.rets[Top])
  /\ <<body0[2], 1>> \in Range(g.rets[Top])

C9_DefsBeforeUses == DefsBeforeUses(g)

C9_Witness ==
  /\ pc = "hoist"
  /\ Len(g.body[<<it, 1>>]) = 1
  /\ Len(body0) = 2
  /\ <<body0[1], 1>> \in Range(g.ins[body0[2]])

\* ---- C10
\* C10: when a node is about to be destroyed none of its outputs has a use, and
\* in every state every value a node or a block output refers to is a graph
\* input or an output of a node that still exists.
C10_NoUseOfDestroyed ==
  /\ pc = "destroy" => \A k \in 1..g.nout[it] : Uses(g, <<it, k>>) = {}
  /\ NoDangling(g)

C10_Witness ==
  /\ pc = "loop"
  /\ {"zeroB", "inline"} \subseteq Applied
  /\ \A k \in 1..Len(visited) :
        visited[k][3] \in {"zeroB", "inline"} => visited[k][2] \notin Nodes(g)
  /\ NoDangling(g)

\* ---- C11
\* the step dispatches the node under the cursor
DispatchStep == visited' # visited

\* the node under the cursor is the zero producer the latest collapse inserted
\* after the conditional it removed
CollapseZero ==
  /\ rule = "collapse"
  /\ visited[Len(visited)][1] = run
  /\ it = tmp
  /\ KindOf(g, it) = "prim::AutogradZero"

\* C11 as stated: every node of the top-level body at the start of the
\* traversal is dispatched exactly once, no node is dispatched twice, and no
\* node the pass inserted or hoisted is dispatched (classified again) at all.
C11_Original ==
  /\ [][DispatchStep => (it \notin Dispatched /\ it \in Range(top0))]_vars
  /\ [][pc' = "done" => Range(top0) \subseteq Dispatched]_vars

\* C11 amended: every node of the top-level body at the start of the traversal
\* is dispatched exactly once and no node is dispatched twice; the ordinary
\* add, its unit constant and the hoisted nodes are never dispatched; the zero
\* producer placed after a collapsed conditional is dispatched once, right
\* after the collapse, and that dispatch leaves the graph and the mapping as
\* they are (the producer is assigned Zero, which it already has).
C11_DispatchOnce ==
  /\ [][DispatchStep =>
          /\ it \notin Dispatched
          /\ it \in Range(top0) \/ (CollapseZero /\ rule' = "zero" /\ state' = state /\ g' = g)]_vars
  /\ [][pc' = "done" => Range(top0) \subseteq Dispatched]_vars

C11_Witness ==
  /\ pc = "done"
  /\ run = 1
  /\ {"collapse", "zero", "inline"} \subseteq Applied
  /\ Dispatched \ Range(top0) # {}
  /\ body0 # <<>>
  /\ Range(body0) \subseteq Range(g.body[Top]) \ Dispatched

\* ---- C12
\* the nodes of the original top-level body that come before m in it
Before0(m) == {top0[k] : k \in 1..(IndexOf(top0, m) - 1)}

\* C12: the step that destroys the current node removes it from the graph and
\* leaves the cursor on the node that followed it in the body (the end of the
\* body if it was the last); the cursor never designates a destroyed node; the
\* nodes of the original body are dispatched in their order with none left
\* out, and the traversal ends only when all of them have been dispatched.
C12_CursorSafety ==
  /\ [][pc = "destroy" =>
          /\ it \notin Nodes(g')
          /\ it' = next(g, it)
          /\ it' # it]_vars
  /\ [](it # 0 => it \in Range(g.body[Top]))
  /\ [][(DispatchStep /\ it \in Range(top0)) =>
          Dispatched \cap Range(top0) = Before0(it)]_vars
  /\ [][pc' = "done" => Range(top0) \subseteq Dispatched]_vars

\* the first node of the body destroyed after the ordinary add and its
\* constant were inserted before it, the last one after its true branch was
\* hoisted before it
C12_Witness ==
  /\ pc = "done"
  /\ run = 1
  /\ Len(top0) > 1
  /\ body0 # <<>>
  /\ \E j, k \in 1..Len(visited) :
       /\ visited[j] = <<1, top0[1], "nonzero">>
       /\ visited[k] = <<1, top0[Len(top0)], "inline">>
  /\ {top0[1], top0[Len(top0)]} \cap Nodes(g) = {}

\* ---- C13
\* the values whose classification the dispatch of the node under the cursor
\* reads: the operands of a guarded add (the second only if the first is not
\* Zero), the operands of the any-nonzero test that guards a conditional
DispatchReads ==
  IF pc # "loop" \/ it = 0 THEN {}
  ELSE IF KindOf(g, it) = "prim::AutogradAdd"
       THEN {a} \cup (IF Lookup(state, a) = Zero THEN {} ELSE {b})
  ELSE IF KindOf(g, it) = "prim::If" /\ Guarded THEN GuardReads
  ELSE {}

\* C13: every value whose classification the dispatcher is about to read has
\* an explicitly assigned entry in the mapping.
C13_ReadsHaveEntries == DispatchReads \subseteq DOMAIN state

\* ---- C14
\* the guard operands of the conditional under the cursor are neither all
\* classified Zero nor all classified Nonzero
GuardMixed ==
  /\ \E k \in 1..Len(GuardOps) : ~Classified(GuardOps[k], Zero)
  /\ \E k \in 1..Len(GuardOps) : ~Classified(GuardOps[k], Nonzero)

\* C14: the dispatch of a top-level conditional whose condition is not
\* produced by an any-nonzero test, or whose guard operands are neither all
\* classified Zero nor all classified Nonzero, leaves the graph as it is and
\* classifies every output of the conditional Unknown.
C14_Untouched ==
  [][(AtNode("prim::If") /\ (~Guarded \/ GuardMixed)) =>
        /\ g' = g
        /\ \A o \in Outputs(g, it) : o \in DOMAIN state' /\ state'[o] = Unknown]_vars

\* ---- C15
\* the values whose classification makes the dispatch rewrite the node under
\* the cursor by rule r
RewriteTriggers(r) ==
  CASE r = "zeroA" -> {a}
    [] r = "zeroB" -> {b}
    [] r = "nonzero" -> {a, b}
    [] r \in {"collapse", "inline"} -> Range(GuardOps)
    [] OTHER -> {}

\* the producers whose outputs the pass has a classification rule for: graph
\* inputs, the recognized kinds, and the nodes the pass creates itself
Classifying ==
  Recognized \cup {"prim::Param", "aten::add", "prim::Constant[value=1]"}

\* C15: the dispatch of a node of any other kind than the recognized ones
\* leaves the graph as it is and classifies every output of the node Unknown;
\* and a value that an unrecognized operation produced triggers no rewrite of
\* a guarded add or of a conditional, unless a rule of the pass has given it a
\* classification of its own (a true-branch output, classified when the
\* conditional is inlined).
C15_DefaultUnknown ==
  /\ [][(pc = "loop" /\ it # 0 /\ KindOf(g, it) \notin Recognized) =>
          /\ g' = g
          /\ \A o \in Outputs(g, it) : o \in DOMAIN state' /\ state'[o] = Unknown]_vars
  /\ [][DispatchStep =>
          \A v \in RewriteTriggers(rule') :
             KindOf(g, v[1]) \in Classifying \/ v \in DOMAIN state]_vars

\* ---- C16
\* C16: within a run no step changes the classification a value already has;
\* in particular the inlining step does not give Nonzero to a true-branch
\* output that is already classified Zero or Unknown.
C16_ClassificationStable ==
  [][run' = run => \A v \in DOMAIN state : v \in DOMAIN state' /\ state'[v] = state[v]]_vars

\* ---- C17
\* C17: a conditional guarded by an any-nonzero test without operands passes
\* both the all-Zero and the all-Nonzero test, and its dispatch collapses it:
\* a zero producer is placed right after it and its true branch stays where
\* it is, to be destroyed with the conditional and not hoisted. No conditional
\* is both collapsed and inlined.
C17_EmptyGuardCollapses ==
  /\ [][(AtNode("prim::If") /\ Guarded /\ GuardOps = <<>>) =>
          /\ all_zeros /\ all_nonzeros
          /\ DispatchStep /\ rule' = "collapse"
          /\ KindOf(g', next(g', it)) = "prim::AutogradZero"
          /\ g'.body[<<it, 1>>] = g.body[<<it, 1>>]]_vars
  /\ [][(pc = "destroy" /\ rule = "collapse") =>
          Range(g.body[<<it, 1>>]) \cap Nodes(g') = {}]_vars
  /\ [](\A j, k \in 1..Len(visited) :
          (visited[j][2] = visited[k][2] /\ {visited[j][3], visited[k][3]} \subseteq {"collapse", "inline"})
             => visited[j][3] = visited[k][3])

\* an operand-less guard's conditional about to be destroyed, its true branch
\* still in place
C17_Witness ==
  /\ pc = "destroy"
  /\ rule = "collapse"
  /\ Guarded
  /\ GuardOps = <<>>
  /\ g.body[<<it, 1>>] # <<>>
  /\ next(g, it) = tmp

\* ---- C18
\* the nodes inside the blocks of conditionals
NestedNodes(gr) == {m \in Nodes(gr) : OwningBlock(gr, m) # Top}

\* the nodes the run has put into the top-level body: hoisted or created
Placed == Range(g.body[Top]) \ Range(top0)

\* the step leaves node m as it is and where it is
Kept(m) ==
  /\ m \in Nodes(g')
  /\ g'.kind[m] = g.kind[m]
  /\ g'.ins[m] = g.ins[m]
  /\ g'.nout[m] = g.nout[m]
  /\ OwningBlock(g', m) = OwningBlock(g, m)

\* C18: only nodes of the top-level body are dispatched, and of the nodes the
\* run itself put there only the zero producer of a collapse; no value of a
\* node inside a block has a classification; and once a node has been hoisted
\* (or created) no step of the run changes, moves or removes it, so a hoisted
\* guarded add or conditional is in the final graph as it was hoisted,
\* whatever the classification of its operands.
C18_OnlyTopLevel ==
  /\ [][DispatchStep =>
          /\ OwningBlock(g, it) = Top
          /\ it \in Placed => CollapseZero]_vars
  /\ [](\A v \in DOMAIN state : v[1] \notin NestedNodes(g))
  /\ [][run' = run => \A m \in Placed : Kept(m)]_vars

\* the run is over and the body it hoisted, never dispatched, holds a guarded
\* add with a Zero operand
C18_Witness ==
  /\ pc = "done"
  /\ run = 1
  /\ Range(body0) \subseteq Placed \ Dispatched
  /\ \E m \in Range(body0) :
       /\ KindOf(g, m) = "prim::AutogradAdd"
       /\ Classified(g.ins[m][1], Zero) \/ Classified(g.ins[m][2], Zero)

\* ---- C19
\* the dispatches of the current run
Dispatches == {k \in 1..Len(visited) : visited[k][1] = run}

\* the conditionals the current run has collapsed
Collapses == {k \in Dispatches : visited[k][3] = "collapse"}

\* C19: every run of the pass, once started, comes to its end, and at no time
\* has it dispatched more nodes than the top-level body had when it started
\* plus the conditionals it collapsed.
C19_Terminates ==
  /\ pc = "init" ~> pc = "done"
  /\ [](Cardinality(Dispatches) <= Len(top0) + Cardinality(Collapses))

\* a finished run that inserted after the cursor (a collapse), before it (an
\* ordinary add) and dispatched as many nodes as the bound allows
C19_Witness ==
  /\ pc = "done"
  /\ run = 1
  /\ {"collapse", "nonzero"} \subseteq Applied
  /\ Cardinality(Dispatches) = Len(top0) + Cardinality(Collapses)

====
